---------------------------- MODULE Spec2Model ----------------------------
(***************************************************************************)
(* Model of the nextrade HTTP API (src/unnamed/part_000): the User,        *)
(* Product and Order collections, the bearer-token middleware and the      *)
(* /api routes, except the regular-expression search GET /api/products and *)
(* the static pages.  A handler that awaits more than one store operation is *)
(* split at the await (signup: pre-save hash, then insert; delete: lookup, *)
(* then removal) so that concurrently handled requests can interleave.     *)
(* Time is counted in days, the unit of the token lifetime.                *)
(***************************************************************************)
EXTENDS Integers, Sequences, FiniteSets, TLC

VARIABLES users, products, createdBy, orders, issued, now, pending, resp

vars == <<users, products, createdBy, orders, issued, now, pending, resp>>

----------------------------------------------------------------------------
(* Bounds of the model *)

MaxUsers == 2
MaxProducts == 1
MaxOrders == 1
MaxTokens == 1
MaxClock == 1
MaxPending == 2
MaxDeleting == 1

\* MaxPending: handlers suspended at an await at one time; MaxDeleting: those
\* of them that are DELETE handlers

(* Program constants *)

SALT_ROUNDS == 10
TokenTTL == 1
JWT_SECRET == "nextrade_secret"

(* Input alphabets *)

Emails == {"a@x.com", "b@x.com"}
SignupPasswords == {"pw1"}
Passwords == SignupPasswords \cup {"pw2"}
RoleEnum == {"admin", "wholesaler", "retailer"}
RoleInputs == RoleEnum \cup {"superuser"}
ProductNames == {"Widget"}
NewNames == {"Gadget"}
UserIds == 1..MaxUsers
AmountsTenths == {4994, 4996}

----------------------------------------------------------------------------
(* Pure helpers *)

\* {...a, ...b}: the fields of b override those of a
Merge(a, b) ==
  [f \in (DOMAIN a) \cup (DOMAIN b) |-> IF f \in DOMAIN b THEN b[f] ELSE a[f]]

\* bcrypt.hash(password, SALT_ROUNDS): a one-way digest, not the plaintext
BcryptHash(p) == [bcrypt |-> p, rounds |-> SALT_ROUNDS]

\* bcrypt.compare(password, hash)
BcryptCompare(p, h) == h.bcrypt = p

\* userSchema.methods.toJSON: the document without its password field
ToJSON_Identity(user) == user

ToJSON(user) == [f \in (DOMAIN user) \ {"password"} |-> user[f]]

\* the { password: 0 } projection of User.find
ProjectOutPassword(user) == [f \in (DOMAIN user) \ {"password"} |-> user[f]]

\* role enum of userSchema
ValidRole(r) == r \in RoleEnum

\* the unique index on email: an insert is accepted iff no stored user has it
UniqueEmailOK_NoIndex(coll, doc) == TRUE

UniqueEmailOK(coll, doc) == \A u \in coll : u.email # doc.email

\* jwt.sign({id, role}, JWT_SECRET, {expiresIn: '1d'})
JwtSign(user, secret, t) ==
  [wellformed |-> TRUE, id |-> user._id, role |-> user.role,
   exp |-> t + TokenTTL, sig |-> secret]

\* jwt.verify(token, JWT_SECRET): throws unless well formed, signed with the
\* key and not expired
JwtVerify_NoExpiry(token, secret, t) == token.wellformed /\ token.sig = secret

JwtVerify(token, secret, t) ==
  /\ token.wellformed
  /\ token.sig = secret
  /\ t < token.exp

MalformedToken == [wellformed |-> FALSE]

ForgedToken(t) ==
  [wellformed |-> TRUE, id |-> 1, role |-> "wholesaler",
   exp |-> t + TokenTTL, sig |-> "attacker_key"]

\* Authorization headers a client can send
Headers ==
  {[scheme |-> "none"], [scheme |-> "Basic"]}
    \cup {[scheme |-> "Bearer", token |-> tk] :
            tk \in issued \cup {MalformedToken, ForgedToken(now)}}

\* authMiddleware: the response it sends, or the decoded payload as req.user
AuthMiddleware(h) ==
  IF h.scheme # "Bearer"
    THEN [ok |-> FALSE, status |-> 401, message |-> "Unauthorized"]
    ELSE IF JwtVerify(h.token, JWT_SECRET, now)
      THEN [ok |-> TRUE, user |-> [id |-> h.token.id, role |-> h.token.role]]
      ELSE [ok |-> FALSE, status |-> 401, message |-> "Invalid token"]

\* req.user.role !== 'wholesaler' (negated)
IsWholesaler_Any(user) == TRUE

IsWholesaler(user) == user.role = "wholesaler"

\* filter { _id, wholesalerId } of findOne / findOneAndUpdate
MatchOwned_IdOnly(doc, pid, uid) == doc._id = pid

MatchOwned(doc, pid, uid) == doc._id = pid /\ doc.wholesalerId = uid

\* .sort({ createdAt: -1 })
RECURSIVE SortNewestFirst(_)
SortNewestFirst(S) ==
  IF S = {} THEN <<>>
  ELSE LET d == CHOOSE x \in S : \A y \in S : y.createdAt <= x.createdAt
       IN <<d>> \o SortNewestFirst(S \ {d})

\* Math.round on an amount given in tenths
MathRound(tenths) == (tenths + 5) \div 10

Range(s) == {s[i] : i \in DOMAIN s}

----------------------------------------------------------------------------
(* Responses *)

Idle == [kind |-> "idle"]

Json(route, req, status, body) ==
  [route |-> route, req |-> req, answered |-> TRUE, json |-> TRUE,
   status |-> status, body |-> body]

\* res.status(..).json(..)
Respond(route, req, status, body) == resp' = Json(route, req, status, body)

\* A rejected promise in a handler without try/catch: the framework either
\* never answers the request or answers with its own non-JSON 500 page.
Unhandled(route, req) ==
  resp' \in
    {[route |-> route, req |-> req, answered |-> FALSE, json |-> FALSE,
      status |-> 0, body |-> [none |-> TRUE]],
     [route |-> route, req |-> req, answered |-> TRUE, json |-> FALSE,
      status |-> 500, body |-> [html |-> TRUE]]}

AuthFailure(route, req, a) ==
  Respond(route, req, a.status, [success |-> FALSE, message |-> a.message])

----------------------------------------------------------------------------
(* Requests *)

NoReq == [none |-> TRUE]

PendingOf(kind) == {i \in DOMAIN pending : pending[i].kind = kind}

FreeSlots == {i \in DOMAIN pending : pending[i] = Idle}

SignupBodies ==
  [email : Emails, password : SignupPasswords, role : RoleInputs]

LoginBodies ==
  [email : Emails, password : Passwords] \cup [email : Emails]

ProductBodies ==
  [name : ProductNames] \cup [name : ProductNames, wholesalerId : UserIds]

UpdateBodies ==
  [name : NewNames] \cup [wholesalerId : UserIds]

ProductIds == 1..MaxProducts

----------------------------------------------------------------------------
(* Initial state: empty collections, no request in flight *)

Init ==
  /\ users = {}
  /\ products = {}
  /\ createdBy = <<>>
  /\ orders = {}
  /\ issued = {}
  /\ now = 0
  /\ pending = [i \in 1..MaxPending |-> Idle]
  /\ resp = [route |-> "none", req |-> NoReq, answered |-> TRUE,
             json |-> TRUE, status |-> 200, body |-> [success |-> TRUE]]

----------------------------------------------------------------------------
(* POST /api/signup *)

\* new User(req.body); user.save() up to the end of the pre-save hook:
\* validation rejects a role outside the enum, the hook hashes the password
SignupStart(body) ==
  /\ Cardinality(users) + Cardinality(PendingOf("signup")) < MaxUsers
  /\ LET req == [body |-> body]
     IN IF ~ValidRole(body.role)
          THEN /\ Respond("POST /api/signup", req, 400,
                          [success |-> FALSE, message |-> "User validation failed"])
               /\ UNCHANGED pending
          ELSE /\ FreeSlots # {}
               /\ LET i == CHOOSE j \in FreeSlots : TRUE
                  IN pending' = [pending EXCEPT ![i] =
                       [kind |-> "signup",
                        doc |-> [email |-> body.email,
                                 password |-> BcryptHash(body.password),
                                 role |-> body.role]]]
               /\ UNCHANGED resp
  /\ UNCHANGED <<users, products, createdBy, orders, issued, now>>

\* the insert of user.save() against the unique index, and the response
SignupSave(i) ==
  /\ pending[i].kind = "signup"
  /\ LET r == pending[i]
         doc == Merge(r.doc, [_id |-> Cardinality(users) + 1])
     IN IF UniqueEmailOK(users, doc)
          THEN /\ users' = users \cup {doc}
               /\ Respond("POST /api/signup", [body |-> r.doc], 201,
                          [success |-> TRUE, message |-> "Account created",
                           user |-> ToJSON(doc)])
          ELSE /\ users' = users
               /\ Respond("POST /api/signup", [body |-> r.doc], 400,
                          [success |-> FALSE,
                           message |-> "E11000 duplicate key error"])
  /\ pending' = [pending EXCEPT ![i] = Idle]
  /\ UNCHANGED <<products, createdBy, orders, issued, now>>

----------------------------------------------------------------------------
(* POST /api/login *)

NoUserResponse_NotFound ==
  [status |-> 404, body |-> [success |-> FALSE, message |-> "User not found"]]

NoUserResponse ==
  [status |-> 401, body |-> [success |-> FALSE, message |-> "Invalid credentials"]]

BadPasswordResponse ==
  [status |-> 401, body |-> [success |-> FALSE, message |-> "Invalid credentials"]]

Login(body) ==
  LET req == [body |-> body]
      found == {u \in users : u.email = body.email}
  IN /\ IF found = {}
          THEN /\ Respond("POST /api/login", req, NoUserResponse.status,
                          NoUserResponse.body)
               /\ UNCHANGED issued
          ELSE LET user == CHOOSE u \in found : TRUE
               IN IF "password" \notin DOMAIN body
                    THEN \* bcrypt.compare(undefined, hash) rejects
                         /\ Unhandled("POST /api/login", req)
                         /\ UNCHANGED issued
                    ELSE IF ~BcryptCompare(body.password, user.password)
                      THEN /\ Respond("POST /api/login", req,
                                      BadPasswordResponse.status,
                                      BadPasswordResponse.body)
                           /\ UNCHANGED issued
                      ELSE LET token == JwtSign(user, JWT_SECRET, now)
                           IN /\ token \in issued \/ Cardinality(issued) < MaxTokens
                              /\ issued' = issued \cup {token}
                              /\ Respond("POST /api/login", req, 200,
                                         [success |-> TRUE, token |-> token,
                                          user |-> ToJSON(user)])
     /\ UNCHANGED <<users, products, createdBy, orders, now, pending>>

----------------------------------------------------------------------------
(* GET /api/wholesalers *)

GetWholesalers ==
  /\ Respond("GET /api/wholesalers", NoReq, 200,
             [success |-> TRUE,
              wholesalers |->
                {ToJSON(ProjectOutPassword(u)) :
                   u \in {w \in users : w.role = "wholesaler"}}])
  /\ UNCHANGED <<users, products, createdBy, orders, issued, now, pending>>

(* GET /api/products/wholesaler/:id *)

GetProductsByWholesaler(id) ==
  /\ Respond("GET /api/products/wholesaler/:id", [id |-> id], 200,
             [success |-> TRUE,
              products |-> SortNewestFirst({p \in products : p.wholesalerId = id})])
  /\ UNCHANGED <<users, products, createdBy, orders, issued, now, pending>>

(* GET /api/products/my *)

GetMyProducts(h) ==
  LET a == AuthMiddleware(h)
      req == [header |-> h]
      route == "GET /api/products/my"
  IN /\ IF ~a.ok THEN AuthFailure(route, req, a)
        ELSE IF ~IsWholesaler(a.user)
          THEN Respond(route, req, 403, [success |-> FALSE])
          ELSE Respond(route, req, 200,
                 [success |-> TRUE,
                  products |->
                    SortNewestFirst({p \in products : p.wholesalerId = a.user.id})])
     /\ UNCHANGED <<users, products, createdBy, orders, issued, now, pending>>

----------------------------------------------------------------------------
(* POST /api/products *)

PostProduct(h, body) ==
  LET a == AuthMiddleware(h)
      req == [header |-> h, body |-> body]
      route == "POST /api/products"
  IN /\ IF ~a.ok
          THEN /\ AuthFailure(route, req, a)
               /\ UNCHANGED <<products, createdBy>>
          ELSE IF ~IsWholesaler(a.user)
            THEN /\ Respond(route, req, 403,
                            [success |-> FALSE,
                             message |-> "Only wholesalers can add products"])
                 /\ UNCHANGED <<products, createdBy>>
            ELSE /\ Len(createdBy) < MaxProducts
                 /\ LET n == Len(createdBy) + 1
                        product == Merge(Merge(body, [wholesalerId |-> a.user.id]),
                                         [_id |-> n, createdAt |-> n])
                    IN /\ products' = products \cup {product}
                       /\ createdBy' = Append(createdBy, a.user.id)
                       /\ Respond(route, req, 201,
                                  [success |-> TRUE, product |-> product])
     /\ UNCHANGED <<users, orders, issued, now, pending>>

----------------------------------------------------------------------------
(* DELETE /api/products/:id *)

\* Product.findOne({ _id, wholesalerId: req.user.id }) and the 403 branch
DeleteFind(h, pid) ==
  LET a == AuthMiddleware(h)
      req == [header |-> h, pid |-> pid]
      route == "DELETE /api/products/:id"
  IN /\ IF ~a.ok
          THEN /\ AuthFailure(route, req, a)
               /\ UNCHANGED pending
          ELSE LET found == {p \in products : MatchOwned(p, pid, a.user.id)}
               IN IF found = {}
                    THEN /\ Respond(route, req, 403,
                                    [success |-> FALSE, message |-> "Not allowed"])
                         /\ UNCHANGED pending
                    ELSE /\ FreeSlots # {}
                         /\ Cardinality(PendingOf("delete")) < MaxDeleting
                         /\ LET i == CHOOSE j \in FreeSlots : TRUE
                            IN pending' = [pending EXCEPT ![i] =
                                 [kind |-> "delete", user |-> a.user,
                                  id |-> (CHOOSE p \in found : TRUE)._id]]
                         /\ UNCHANGED resp
     /\ UNCHANGED <<users, products, createdBy, orders, issued, now>>

\* product.deleteOne(): removes the document with the looked-up _id, whatever
\* it holds by now, and answers 200 whether or not a document was removed
DeleteRemove(i) ==
  /\ pending[i].kind = "delete"
  /\ LET r == pending[i]
     IN /\ products' = {p \in products : p._id # r.id}
        /\ Respond("DELETE /api/products/:id", [user |-> r.user, pid |-> r.id],
                   200, [success |-> TRUE])
  /\ pending' = [pending EXCEPT ![i] = Idle]
  /\ UNCHANGED <<users, createdBy, orders, issued, now>>

----------------------------------------------------------------------------
(* PUT /api/products/:id *)

\* Product.findOneAndUpdate(filter, req.body, { new: true }): one atomic
\* store operation that sets every field of the body on the matched document
PutProduct(h, pid, body) ==
  LET a == AuthMiddleware(h)
      req == [header |-> h, pid |-> pid, body |-> body]
      route == "PUT /api/products/:id"
  IN /\ IF ~a.ok
          THEN /\ AuthFailure(route, req, a)
               /\ UNCHANGED products
          ELSE LET found == {p \in products : MatchOwned(p, pid, a.user.id)}
               IN IF found = {}
                    THEN /\ Respond(route, req, 403, [success |-> FALSE])
                         /\ UNCHANGED products
                    ELSE LET old == CHOOSE p \in found : TRUE
                             new == Merge(old, body)
                         IN /\ products' = (products \ {old}) \cup {new}
                            /\ Respond(route, req, 200,
                                       [success |-> TRUE, product |-> new])
     /\ UNCHANGED <<users, createdBy, orders, issued, now, pending>>

----------------------------------------------------------------------------
(* POST /api/orders, GET /api/orders *)

PostOrder ==
  /\ Cardinality(orders) < MaxOrders
  /\ LET n == Cardinality(orders) + 1
         order == [_id |-> n, productName |-> "Widget", createdAt |-> n,
                   paymentStatus |-> "Pending", status |-> "Processing"]
     IN /\ orders' = orders \cup {order}
        /\ Respond("POST /api/orders", NoReq, 201,
                   [success |-> TRUE, order |-> order])
  /\ UNCHANGED <<users, products, createdBy, issued, now, pending>>

GetOrders(h) ==
  LET a == AuthMiddleware(h)
      req == [header |-> h]
      route == "GET /api/orders"
  IN /\ IF ~a.ok THEN AuthFailure(route, req, a)
        ELSE Respond(route, req, 200,
                     [success |-> TRUE, orders |-> SortNewestFirst(orders)])
     /\ UNCHANGED <<users, products, createdBy, orders, issued, now, pending>>

----------------------------------------------------------------------------
(* POST /api/create-order, GET /api/get-razorpay-key *)

\* razorpay.orders.create is an external call: it resolves with the gateway's
\* order or rejects, and the handler has no try/catch
CreateOrder(tenths, gatewayOk) ==
  LET req == [amount |-> tenths]
      route == "POST /api/create-order"
  IN /\ IF gatewayOk
          THEN Respond(route, req, 200,
                       [amount |-> MathRound(tenths), currency |-> "INR"])
          ELSE Unhandled(route, req)
     /\ UNCHANGED <<users, products, createdBy, orders, issued, now, pending>>

GetRazorpayKey ==
  /\ Respond("GET /api/get-razorpay-key", NoReq, 200,
             [key |-> "RAZORPAY_KEY_ID"])
  /\ UNCHANGED <<users, products, createdBy, orders, issued, now, pending>>

----------------------------------------------------------------------------
(* Passage of time *)

Tick ==
  /\ now < MaxClock
  /\ now' = now + 1
  /\ UNCHANGED <<users, products, createdBy, orders, issued, pending, resp>>

----------------------------------------------------------------------------

(* The accounts subsystem: signup, login and the public wholesaler list, *)
(* with every signup and login payload                                   *)

NextAccounts ==
  \/ \E body \in SignupBodies : SignupStart(body)
  \/ \E i \in DOMAIN pending : SignupSave(i)
  \/ \E body \in LoginBodies : Login(body)
  \/ GetWholesalers

SpecAccounts == Init /\ [][NextAccounts]_vars

(* States the accounts subsystem reaches: wholesaler a@x.com and a second *)
(* account of the given role have signed up and logged in at day 0        *)

SeedUser(n, email, role) ==
  [_id |-> n, email |-> email, password |-> BcryptHash("pw1"), role |-> role]

SeedUsers(role) ==
  {SeedUser(1, "a@x.com", "wholesaler"), SeedUser(2, "b@x.com", role)}

SeedTokens(role) == {JwtSign(u, JWT_SECRET, 0) : u \in SeedUsers(role)}

Seeded(role) ==
  /\ users = SeedUsers(role)
  /\ issued = SeedTokens(role)
  /\ products = {}
  /\ createdBy = <<>>
  /\ orders = {}
  /\ now = 0
  /\ pending = [i \in 1..MaxPending |-> Idle]

(* The catalog subsystem: from a state with two logged-in accounts, every *)
(* product route is driven with every payload and every well-formed       *)
(* bearer token, issued or forged                                         *)

InitCatalog ==
  /\ \E role \in {"wholesaler", "retailer"} : Seeded(role)
  /\ resp = [route |-> "none", req |-> NoReq, answered |-> TRUE,
             json |-> TRUE, status |-> 200, body |-> [success |-> TRUE]]

CallerHeaders == {h \in Headers : h.scheme = "Bearer" /\ h.token.wellformed}

NextCatalog ==
  \/ \E id \in UserIds : GetProductsByWholesaler(id)
  \/ \E h \in CallerHeaders : GetMyProducts(h)
  \/ \E h \in CallerHeaders, body \in ProductBodies : PostProduct(h, body)
  \/ \E h \in CallerHeaders, pid \in ProductIds : DeleteFind(h, pid)
  \/ \E i \in DOMAIN pending : DeleteRemove(i)
  \/ \E h \in CallerHeaders, pid \in ProductIds, body \in UpdateBodies :
       PutProduct(h, pid, body)

SpecCatalog == InitCatalog /\ [][NextCatalog]_vars

(* The token life cycle: the accounts log in as time passes, and every   *)
(* protected route is driven with every header                           *)

ValidLogins == [email : Emails, password : SignupPasswords]

PlainProductBodies == {b \in ProductBodies : DOMAIN b = {"name"}}

Renames == {b \in UpdateBodies : DOMAIN b = {"name"}}

InitAuth ==
  /\ users = SeedUsers("retailer")
  /\ issued = {}
  /\ products = {}
  /\ createdBy = <<>>
  /\ orders = {}
  /\ now = 0
  /\ pending = [i \in 1..MaxPending |-> Idle]
  /\ resp = [route |-> "none", req |-> NoReq, answered |-> TRUE,
             json |-> TRUE, status |-> 200, body |-> [success |-> TRUE]]

NextAuth ==
  \/ \E body \in ValidLogins : Login(body)
  \/ Tick
  \/ \E h \in Headers : GetMyProducts(h)
  \/ \E h \in Headers, body \in PlainProductBodies : PostProduct(h, body)
  \/ \E h \in Headers, pid \in ProductIds : DeleteFind(h, pid)
  \/ \E i \in DOMAIN pending : DeleteRemove(i)
  \/ \E h \in Headers, pid \in ProductIds, body \in Renames :
       PutProduct(h, pid, body)
  \/ PostOrder
  \/ \E h \in Headers : GetOrders(h)

SpecAuth == InitAuth /\ [][NextAuth]_vars

(* Every modelled route, driven by the clients of one wholesaler account *)

OneAccount == {b \in SignupBodies : b.email = "a@x.com" /\ b.role = "wholesaler"}

NextApi ==
  \/ \E body \in OneAccount \cup {b \in SignupBodies : ~ValidRole(b.role)} :
       SignupStart(body)
  \/ \E i \in DOMAIN pending : SignupSave(i)
  \/ \E body \in {b \in LoginBodies : b.email = "a@x.com"} : Login(body)
  \/ GetWholesalers
  \/ \E id \in UserIds : GetProductsByWholesaler(id)
  \/ \E h \in Headers : GetMyProducts(h)
  \/ \E h \in Headers, body \in PlainProductBodies : PostProduct(h, body)
  \/ \E h \in Headers, pid \in ProductIds : DeleteFind(h, pid)
  \/ \E i \in DOMAIN pending : DeleteRemove(i)
  \/ \E h \in Headers, pid \in ProductIds, body \in Renames :
       PutProduct(h, pid, body)
  \/ PostOrder
  \/ \E h \in Headers : GetOrders(h)
  \/ \E tenths \in AmountsTenths, gatewayOk \in BOOLEAN :
       CreateOrder(tenths, gatewayOk)
  \/ GetRazorpayKey
  \/ Tick

SpecApi == Init /\ [][NextApi]_vars

----------------------------------------------------------------------------
(* Vocabulary of the properties, stated on requests and stores alone *)

PUT == "PUT /api/products/:id"
DELETE == "DELETE /api/products/:id"
ProtectedRoutes ==
  {"GET /api/products/my", "POST /api/products", PUT, DELETE, "GET /api/orders"}

\* the header carries a token this server issued and that has not expired
Authenticated(h) ==
  /\ h.scheme = "Bearer"
  /\ h.token \in issued
  /\ now < h.token.exp

\* a request that was received and answered in this step
Answered(routes) ==
  /\ resp' # resp
  /\ pending' = pending
  /\ resp'.route \in routes

Owns(uid, pid) == \E p \in products : p._id = pid /\ p.wholesalerId = uid

Ids(docs) == {p._id : p \in docs}

StoresUnchanged == UNCHANGED <<users, products, createdBy, orders, pending>>

----------------------------------------------------------------------------
C2_OwnerImmutable ==
  \A p \in products : p.wholesalerId = createdBy[p._id]

\* C3: POST /api/products with a valid token of a role other than wholesaler
\* is answered 403 and creates nothing, and a product only ever appears
\* through a POST /api/products whose valid token has role wholesaler.
C3_OnlyWholesalersCreate ==
  [][/\ (/\ Answered({"POST /api/products"})
         /\ Authenticated(resp'.req.header)
         /\ resp'.req.header.token.role # "wholesaler")
        => (resp'.status = 403 /\ products' = products)
     /\ ~(Ids(products') \subseteq Ids(products))
        => /\ resp'.route = "POST /api/products"
           /\ resp'.status = 201
           /\ Authenticated(resp'.req.header)
           /\ resp'.req.header.token.role = "wholesaler"]_vars

C3_Witness ==
  /\ resp.route = "POST /api/products"
  /\ resp.status = 403
  /\ resp.req.header.scheme = "Bearer"
  /\ resp.req.header.token \in issued
  /\ resp.req.header.token.role = "retailer"

\* C4: GET /api/products/my by wholesaler W returns exactly the products W
\* created that have not been deleted.
C4_MyProductsAreCreatedOnes ==
  [][(/\ Answered({"GET /api/products/my"})
      /\ resp'.status = 200)
     => Ids(Range(resp'.body.products)) =
          {i \in Ids(products) : createdBy[i] = resp'.req.header.token.id}]_vars

\* C5: a signup whose email a stored user holds is answered 400 and stores
\* nothing, and no two stored users ever share an email.
C5_UniqueEmails ==
  /\ [](\A u, v \in users : u.email = v.email => u = v)
  /\ [][(/\ resp' # resp
         /\ resp'.route = "POST /api/signup"
         /\ \E u \in users : u.email = resp'.req.body.email)
        => /\ resp'.status = 400
           /\ resp'.body.success = FALSE
           /\ users' = users]_vars

C5_Witness ==
  /\ resp.route = "POST /api/signup"
  /\ resp.status = 400
  /\ resp.body.message = "E11000 duplicate key error"
  /\ \E u \in users : u.email = resp.req.body.email

C7_NoPasswordInResponses ==
  resp.json =>
    /\ "user" \in DOMAIN resp.body => "password" \notin DOMAIN resp.body.user
    /\ "wholesalers" \in DOMAIN resp.body
         => \A w \in resp.body.wholesalers : "password" \notin DOMAIN w

C7_Witness ==
  /\ resp.route = "POST /api/signup"
  /\ resp.status = 201
  /\ \E u \in users : /\ u._id = resp.body.user._id
                      /\ "password" \in DOMAIN u

(* Vocabulary of the token properties *)

AbsentOrMalformed(h) == h.scheme # "Bearer" \/ ~h.token.wellformed

BadSignatureOrExpired(h) ==
  /\ h.scheme = "Bearer"
  /\ h.token.wellformed
  /\ (h.token \notin issued \/ now >= h.token.exp)

Rejected(message) ==
  /\ resp'.status = 401
  /\ resp'.body = [success |-> FALSE, message |-> message]
  /\ StoresUnchanged

\* the caller identity a request carries past the middleware
BoundAtIssue ==
  /\ (Answered(ProtectedRoutes) /\ resp'.status # 401)
       => /\ Authenticated(resp'.req.header)
          /\ \E u \in users : /\ u._id = resp'.req.header.token.id
                              /\ u.role = resp'.req.header.token.role
  /\ \A i \in DOMAIN pending :
       (pending'[i] # pending[i] /\ pending'[i].kind = "delete")
         => \E tk \in issued : /\ now < tk.exp
                               /\ pending'[i].user = [id |-> tk.id, role |-> tk.role]

C9_FailuresAreJsonErrors ==
  resp.route # "none" =>
    /\ resp.answered
    /\ \/ resp.status \in {200, 201}
       \/ /\ resp.json
          /\ resp.status \in {400, 401, 403, 500}
          /\ resp.body.success = FALSE
          /\ "message" \in DOMAIN resp.body

\* C10: a DELETE answered 200 removes exactly the product it names, and
\* that product is owned by the caller when it is removed.
C10_DeleteAtomic ==
  [][\A i \in DOMAIN pending :
       (pending[i].kind = "delete" /\ pending'[i] = Idle)
         => /\ resp'.status = 200
            /\ \E p \in products : /\ p._id = pending[i].id
                                   /\ p.wholesalerId = pending[i].user.id
                                   /\ products' = products \ {p}]_vars

=============================================================================
